---- MODULE Spec2Model ----
(***************************************************************************)
(* Model of the order book of binance_watcher (src/src/order_book.rs):     *)
(* the OrderBook struct, the snapshot application, the websocket diff      *)
(* application with its three guards, and the per-level upsert with its    *)
(* binary search.                                                          *)
(*                                                                         *)
(* Numbers: an f64 is modelled by the integer number of tenths it holds    *)
(* (1.0 is 10).  A LevelApi carries price and quantity as decimal TEXT, a  *)
(* sequence of one-character strings, that parse_f64 converts.             *)
(***************************************************************************)
EXTENDS Integers, Sequences, FiniteSets, TLC

\* one OrderBook, its configured depth, and the latest call on it
VARIABLES last_update_id, levels, bid, ask, is_just_initialised, last

\* one handle_updates task (src/src/main.rs): the shutdown flag it shares,
\* its symbols, its books, its position (pc: "subscribe", "loop" at line
\* 104, "fetch" at line 112 for symbols[fetching], "read" at line 133,
\* "closed" once it has returned, "panicked"), and the record of its
\* latest step
VARIABLES is_app_running, symbols, order_books, pc, fetching, pending, step

\* main (src/src/main.rs:23-66): the instruments and connections of the
\* Config, the handlers spawned so far, the chunk the loop of line 39 is at,
\* and main's position (main_pc: "spawning", "joining" at line 61,
\* "finished", "panicked")
VARIABLES instruments, connections, handlers, chunk_no, main_pc

bookvars == <<last_update_id, levels, bid, ask, is_just_initialised, last>>

sessvars ==
    <<is_app_running, symbols, order_books, pc, fetching, pending, step>>

dispvars == <<instruments, connections, handlers, chunk_no, main_pc>>

vars == <<bookvars, sessvars, dispvars>>

(***************************************************************************)
(* Bounds of the model.                                                    *)
(***************************************************************************)
\* update ids range over 0..MaxId
MaxId == 2
\* the configured depth (Config.levels) ranges over 1..MaxDepth
MaxDepth == 2
\* a snapshot carries at most MaxSnapshotLen levels in all (both sides)
MaxSnapshotLen == 2
\* a diff event carries at most MaxDiffLen levels in all (both sides)
MaxDiffLen == 1
\* Config.instruments holds 1..MaxInstruments instruments
MaxInstruments == 4
\* Config.connections ranges over 1..MaxConnections
MaxConnections == 3

Ids == 0..MaxId

(***************************************************************************)
(* Decimal text and its conversion (str::parse::<f64>).                    *)
(***************************************************************************)
Digits == {"0", "1", "2", "3", "4", "5", "6", "7", "8", "9"}

DigitVal(c) ==
    CASE c = "0" -> 0 [] c = "1" -> 1 [] c = "2" -> 2 [] c = "3" -> 3
      [] c = "4" -> 4 [] c = "5" -> 5 [] c = "6" -> 6 [] c = "7" -> 7
      [] c = "8" -> 8 [] c = "9" -> 9

RECURSIVE DecVal(_)
DecVal(ds) ==
    IF ds = <<>> THEN 0
    ELSE DecVal(SubSeq(ds, 1, Len(ds) - 1)) * 10 + DigitVal(ds[Len(ds)])

\* digits, at most one ".", at least one digit; the value in tenths (the
\* tokens of the model carry at most one fractional digit)
parse_f64(tok) ==
    LET dots    == {i \in 1..Len(tok) : tok[i] = "."}
        d       == IF dots = {} THEN Len(tok) + 1 ELSE CHOOSE i \in dots : TRUE
        intpart == SubSeq(tok, 1, d - 1)
        frac    == SubSeq(tok, d + 1, Len(tok))
        ok      == /\ \A i \in 1..Len(tok) : tok[i] \in Digits \cup {"."}
                   /\ Cardinality(dots) <= 1
                   /\ Len(intpart) + Len(frac) > 0
    IN  IF ok
        THEN [ok |-> TRUE,
              val |-> DecVal(intpart) * 10
                      + (IF frac = <<>> THEN 0 ELSE DigitVal(frac[1]))]
        ELSE [ok |-> FALSE, val |-> 0]

\* the decimal texts of the model, and their conversion tabulated once
Tokens == {<<"0">>, <<"1">>, <<"2">>, <<"3">>, <<"1", ".", "0">>, <<"x">>}

parsed == [tok \in Tokens |-> parse_f64(tok)]

\* .parse::<f64>().unwrap()
level_api_to_level(api_level) ==
    [quantity |-> parsed[api_level.quantity].val,
     price    |-> parsed[api_level.price].val]

(***************************************************************************)
(* Floats.                                                                 *)
(***************************************************************************)
Abs(x) == IF x < 0 THEN -x ELSE x

\* (a - b).abs() < f64::EPSILON; EPSILON is far below one tenth, the
\* resolution of the model, so the difference must be below one unit
floats_equal(a, b) == Abs(a - b) < 1

total_cmp(a, b) ==
    IF a < b THEN "Less" ELSE IF a > b THEN "Greater" ELSE "Equal"

(***************************************************************************)
(* look_for_level: slice::binary_search_by with the side's comparator.     *)
(* Indices are 0-based as in the source; found = Ok(index), otherwise      *)
(* Err(index).                                                             *)
(***************************************************************************)
\* the comparator with the side's direction ignored
compare_level_no_direction(level, price, ascending) ==
    total_cmp(level.price, price)

compare_level(level, price, ascending) ==
    IF ascending THEN total_cmp(level.price, price)
    ELSE total_cmp(price, level.price)

RECURSIVE binary_search_by(_, _, _, _, _)
binary_search_by(lvls, price, ascending, left, right) ==
    IF left >= right THEN [found |-> FALSE, index |-> left]
    ELSE LET mid == left + ((right - left) \div 2)
             c   == compare_level(lvls[mid + 1], price, ascending)
         IN  IF c = "Less"
             THEN binary_search_by(lvls, price, ascending, mid + 1, right)
             ELSE IF c = "Greater"
             THEN binary_search_by(lvls, price, ascending, left, mid)
             ELSE [found |-> TRUE, index |-> mid]

look_for_level(price, lvls, ascending) ==
    binary_search_by(lvls, price, ascending, 0, Len(lvls))

(***************************************************************************)
(* Vec operations, 0-based index.                                          *)
(***************************************************************************)
vec_remove(v, index) == SubSeq(v, 1, index) \o SubSeq(v, index + 2, Len(v))

vec_insert(v, index, e) ==
    SubSeq(v, 1, index) \o <<e>> \o SubSeq(v, index + 1, Len(v))

vec_set(v, index, e) == [v EXCEPT ![index + 1] = e]

vec_truncate(v, n) == IF Len(v) > n THEN SubSeq(v, 1, n) ELSE v

(***************************************************************************)
(* do_apply_to_level: the upsert of one level on one side.                 *)
(***************************************************************************)
do_apply_to_level(lvls, api_level, ascending) ==
    LET level_update == level_api_to_level(api_level)
        result       == look_for_level(level_update.price, lvls, ascending)
        new_level    == [price    |-> level_update.price,
                         quantity |-> level_update.quantity]
    IN  IF result.found
        THEN IF floats_equal(level_update.price, 0)
             THEN vec_remove(lvls, result.index)
             ELSE vec_set(lvls, result.index, new_level)
        ELSE IF floats_equal(level_update.price, 0)
             THEN lvls
             ELSE vec_insert(lvls, result.index, new_level)

apply_bid(lvls, api_level) == do_apply_to_level(lvls, api_level, FALSE)
apply_ask(lvls, api_level) == do_apply_to_level(lvls, api_level, TRUE)

\* for level in &book.b { self.apply_bid(&level) }
RECURSIVE apply_all(_, _, _)
apply_all(lvls, api_levels, ascending) ==
    IF api_levels = <<>> THEN lvls
    ELSE apply_all(do_apply_to_level(lvls, Head(api_levels), ascending),
                   Tail(api_levels), ascending)

(***************************************************************************)
(* The OrderBook as a value: the record of its fields.                     *)
(***************************************************************************)
Self ==
    [last_update_id      |-> last_update_id,
     levels              |-> levels,
     bid                 |-> bid,
     ask                 |-> ask,
     is_just_initialised |-> is_just_initialised]

\* OrderBook::new(levels, symbol) with ..Default::default()
new(n) ==
    [last_update_id      |-> 0,
     levels              |-> n,
     bid                 |-> <<>>,
     ask                 |-> <<>>,
     is_just_initialised |-> FALSE]

\* a trim that keeps one level too many
trim_off_by_one(self) ==
    [self EXCEPT !.bid = vec_truncate(@, self.levels + 1),
                 !.ask = vec_truncate(@, self.levels + 1)]

trim(self) ==
    [self EXCEPT !.bid = vec_truncate(@, self.levels),
                 !.ask = vec_truncate(@, self.levels)]

\* clear(); for level in &book.bids { push(level_api_to_level(&level)) }
pushed(api_levels) ==
    [i \in 1..Len(api_levels) |-> level_api_to_level(api_levels[i])]

\* the sides not cleared before the levels are pushed
apply_full_book_no_clear(self, book) ==
    trim([self EXCEPT !.last_update_id      = book.last_update_id,
                      !.is_just_initialised = TRUE,
                      !.bid                 = @ \o pushed(book.bids),
                      !.ask                 = @ \o pushed(book.asks)])

apply_full_book_from_http_api(self, book) ==
    trim([self EXCEPT !.last_update_id      = book.last_update_id,
                      !.is_just_initialised = TRUE,
                      !.bid                 = pushed(book.bids),
                      !.ask                 = pushed(book.asks)])

\* the comparison the wrong way round
is_update_applied_reversed(self, book_update) ==
    self.last_update_id < book_update.u

is_update_applied(self, book_update) ==
    self.last_update_id > book_update.u

\* the lower end of the range left unchecked
is_eligible_no_lower_end(self, book_update) ==
    self.last_update_id <= book_update.u

is_eligible_for_update(self, book_update) ==
    /\ book_update.U <= self.last_update_id
    /\ self.last_update_id <= book_update.u

\* the continuity check with no relaxation after a snapshot
is_not_chained_strict(self, book) ==
    self.last_update_id # book.pu

\* the guard of line 112
is_not_chained(self, book) ==
    /\ ~self.is_just_initialised
    /\ self.last_update_id # book.pu

\* the cursor moved to the first id of the event instead of the final one
update_cursor_to_first(self, book) ==
    trim([self EXCEPT !.bid            = apply_all(@, book.b, FALSE),
                      !.ask            = apply_all(@, book.a, TRUE),
                      !.last_update_id = book.U])

\* lines 116-124: the levels, the cursor, the trim
update(self, book) ==
    trim([self EXCEPT !.bid            = apply_all(@, book.b, FALSE),
                      !.ask            = apply_all(@, book.a, TRUE),
                      !.last_update_id = book.u])

\* the levels applied before the continuity check
apply_update_before_check(self, book) ==
    IF is_update_applied(self, book)
    THEN [self |-> self, ret |-> TRUE, outcome |-> "Stale", line |-> 105]
    ELSE IF ~is_eligible_for_update(self, book)
    THEN [self |-> self, ret |-> FALSE, outcome |-> "Gap", line |-> 109]
    ELSE IF is_not_chained(self, book)
    THEN [self |-> [update(self, book) EXCEPT
                       !.last_update_id = self.last_update_id],
          ret |-> FALSE, outcome |-> "Gap", line |-> 113]
    ELSE [self |-> update(self, book),
          ret |-> TRUE, outcome |-> "Applied", line |-> 126]

\* The bool returned, the return statement taken (line) and the outcome it
\* stands for: true at line 105 is Stale, false is Gap, true at 126 Applied.
apply_depth_book_update_from_websocket(self, book) ==
    IF is_update_applied(self, book)
    THEN [self |-> self, ret |-> TRUE, outcome |-> "Stale", line |-> 105]
    ELSE IF ~is_eligible_for_update(self, book)
    THEN [self |-> self, ret |-> FALSE, outcome |-> "Gap", line |-> 109]
    ELSE IF is_not_chained(self, book)
    THEN [self |-> self, ret |-> FALSE, outcome |-> "Gap", line |-> 113]
    ELSE [self |-> update(self, book),
          ret |-> TRUE, outcome |-> "Applied", line |-> 126]

(***************************************************************************)
(* The queries.  A Result or Option is a record with its tag (ok, some).   *)
(* get_mid halves a difference of tenths: its value is given in            *)
(* twentieths (twice the number of tenths), get_spread's in tenths.        *)
(***************************************************************************)
NoPrice == [quantity |-> 0, price |-> 0]

get_best_bid(self) ==
    IF Len(self.bid) = 0 THEN [ok |-> FALSE, level |-> NoPrice]
    ELSE [ok |-> TRUE, level |-> self.bid[1]]

get_best_ask(self) ==
    IF Len(self.ask) = 0 THEN [ok |-> FALSE, level |-> NoPrice]
    ELSE [ok |-> TRUE, level |-> self.ask[1]]

\* the half difference without the bid price added back
get_mid_no_offset(self) ==
    LET bid_r == get_best_bid(self)
        ask_r == get_best_ask(self)
    IN  IF bid_r.ok /\ ask_r.ok
        THEN [some |-> TRUE,
              twentieths |-> ask_r.level.price - bid_r.level.price]
        ELSE [some |-> FALSE, twentieths |-> 0]

\* (ask_val.price - bid_val.price) / 2.0 + bid_val.price
get_mid(self) ==
    LET bid_r == get_best_bid(self)
        ask_r == get_best_ask(self)
    IN  IF bid_r.ok /\ ask_r.ok
        THEN [some |-> TRUE,
              twentieths |-> (ask_r.level.price - bid_r.level.price)
                             + 2 * bid_r.level.price]
        ELSE [some |-> FALSE, twentieths |-> 0]

get_spread(self) ==
    LET bid_r == get_best_bid(self)
        ask_r == get_best_ask(self)
    IN  IF bid_r.ok /\ ask_r.ok
        THEN [some |-> TRUE, val |-> ask_r.level.price - bid_r.level.price]
        ELSE [some |-> FALSE, val |-> 0]

(***************************************************************************)
(* Inputs of the book's two operations: two prices at one quantity, as    *)
(* the decimal texts the feeds deliver (every text of these parses; more   *)
(* texts are among the upserts below).                                     *)
(***************************************************************************)
BookPriceTokens == {<<"1">>, <<"2">>}
BookQtyTokens   == {<<"1">>}

LevelApis(prices, qtys) == [price : prices, quantity : qtys]

\* Vec<LevelApi> of at most n entries
LevelLists(apis, n) == UNION {[1..k -> apis] : k \in 0..n}

BookLevelApis == LevelApis(BookPriceTokens, BookQtyTokens)

\* the two lists of one message: at most n levels in all
LevelListPairs(n) ==
    {p \in LevelLists(BookLevelApis, n) \X LevelLists(BookLevelApis, n) :
        Len(p[1]) + Len(p[2]) <= n}

\* FullBook: any id and any lists, the code validates none of them
FullBooks ==
    {[last_update_id |-> i, bids |-> p[1], asks |-> p[2]] :
        i \in Ids, p \in LevelListPairs(MaxSnapshotLen)}

\* BookDepthUpdate: any U, u, pu (U > u included) and any lists
BookDepthUpdates ==
    {[U |-> i[1], u |-> i[2], pu |-> i[3], b |-> p[1], a |-> p[2]] :
        i \in Ids \X Ids \X Ids, p \in LevelListPairs(MaxDiffLen)}

(***************************************************************************)
(* `last` records the latest call on the book: the operation (op), for a   *)
(* diff the outcome its return statement stands for, and whether a diff    *)
(* has been Applied since the latest snapshot (first_done).  For a single  *)
(* upsert: the level (lvl) and whether its price was on the side (found).  *)
(***************************************************************************)
NoLevel == [price |-> <<>>, quantity |-> <<>>]

NoCall ==
    [op |-> "new", outcome |-> "None", first_done |-> FALSE,
     lvl |-> NoLevel, found |-> FALSE]

\* a new book of some depth, no call made on it
InitBook ==
    /\ \E n \in 1..MaxDepth :
          /\ last_update_id      = new(n).last_update_id
          /\ levels              = new(n).levels
          /\ bid                 = new(n).bid
          /\ ask                 = new(n).ask
          /\ is_just_initialised = new(n).is_just_initialised
    /\ last = NoCall

NoStep ==
    [op |-> "none", outcome |-> "None", printed |-> FALSE,
     observed |-> FALSE, failed |-> FALSE]

\* no handle_updates task
NoSession ==
    /\ is_app_running = TRUE
    /\ symbols = <<>>
    /\ order_books = <<>>
    /\ pc = "closed"
    /\ fetching = 0
    /\ pending = {}
    /\ step = NoStep

\* no main
NoDispatch ==
    /\ instruments = <<>>
    /\ connections = 1
    /\ handlers = <<>>
    /\ chunk_no = 0
    /\ main_pc = "finished"

Init == InitBook /\ NoSession /\ NoDispatch

Store(self) ==
    /\ last_update_id'      = self.last_update_id
    /\ levels'              = self.levels
    /\ bid'                 = self.bid
    /\ ask'                 = self.ask
    /\ is_just_initialised' = self.is_just_initialised

\* book.apply_full_book_from_http_api(&book)
ApplySnapshot ==
    \E book \in FullBooks :
        /\ Store(apply_full_book_from_http_api(Self, book))
        /\ last' = [NoCall EXCEPT !.op = "snapshot"]
        /\ UNCHANGED <<sessvars, dispvars>>

\* book.apply_depth_book_update_from_websocket(&book_update)
ApplyDiff ==
    \E book \in BookDepthUpdates :
        LET r == apply_depth_book_update_from_websocket(Self, book)
        IN  /\ Store(r.self)
            /\ last' = [NoCall EXCEPT
                           !.op         = "diff",
                           !.outcome    = r.outcome,
                           !.first_done = \/ r.outcome = "Applied"
                                          \/ last.first_done]
            /\ UNCHANGED <<sessvars, dispvars>>

Next == ApplySnapshot \/ ApplyDiff

Spec == Init /\ [][Next]_vars

(***************************************************************************)
(* The upserts alone, from the empty sides of a new book: apply_bid and    *)
(* apply_ask one level at a time.  Price "0" and quantity "0" are among    *)
(* the texts (quantity "0" is the exchange's removal of a level).          *)
(***************************************************************************)
UpsertPriceTokens == {<<"0">>, <<"1">>, <<"2">>, <<"3">>, <<"1", ".", "0">>}
UpsertQtyTokens   == {<<"0">>, <<"1">>}

UpsertLevelApis == LevelApis(UpsertPriceTokens, UpsertQtyTokens)

UpsertBid ==
    \E api_level \in UpsertLevelApis :
        /\ bid' = apply_bid(bid, api_level)
        /\ last' = [NoCall EXCEPT
                       !.op    = "apply_bid",
                       !.lvl   = api_level,
                       !.found = look_for_level(level_api_to_level(api_level).price,
                                                bid, FALSE).found]
        /\ UNCHANGED <<last_update_id, levels, ask, is_just_initialised>>
        /\ UNCHANGED <<sessvars, dispvars>>

UpsertAsk ==
    \E api_level \in UpsertLevelApis :
        /\ ask' = apply_ask(ask, api_level)
        /\ last' = [NoCall EXCEPT
                       !.op    = "apply_ask",
                       !.lvl   = api_level,
                       !.found = look_for_level(level_api_to_level(api_level).price,
                                                ask, TRUE).found]
        /\ UNCHANGED <<last_update_id, levels, bid, is_just_initialised>>
        /\ UNCHANGED <<sessvars, dispvars>>

NextUpsert == UpsertBid \/ UpsertAsk

SpecUpsert == Init /\ [][NextUpsert]_vars

TypeOK ==
    /\ last_update_id \in Ids
    /\ levels \in 1..MaxDepth
    /\ is_just_initialised \in BOOLEAN
    /\ last.op \in {"new", "snapshot", "diff", "apply_bid", "apply_ask"}

(***************************************************************************)
(* handle_updates (src/src/main.rs:68-183): one task for a group of        *)
(* symbols.  The call site of lines 157-165 matches the bool returned by   *)
(* apply_depth_book_update_from_websocket with Ok(_) / Err(e): true is     *)
(* the Ok arm (the book is printed), false the Err arm (break), as the     *)
(* comment of order_book.rs:107 has it ("we need ask http api again").     *)
(* A panic (expect, unwrap) ends the task; its books are dropped with it.  *)
(***************************************************************************)
\* the lists of instruments a task is given (a chunk is never empty)
Groups == {<<"btc">>, <<"btc", "eth">>}

\* the symbol of a stream event, as the exchange writes it
StreamSymbols == {"BTC", "ETH", "XRP"}

to_lowercase(s) ==
    CASE s = "BTC" -> "btc" [] s = "ETH" -> "eth" [] s = "XRP" -> "xrp"
      [] OTHER -> s

Range(f) == {f[i] : i \in DOMAIN f}

\* the texts of a level that parses and of one whose price does not
GoodLevel == [price |-> <<"1">>, quantity |-> <<"1">>]
BadLevel  == [price |-> <<"x">>, quantity |-> <<"1">>]

\* .parse::<f64>().unwrap() panics on this level
unparseable(api_level) ==
    \/ ~parsed[api_level.price].ok
    \/ ~parsed[api_level.quantity].ok

has_unparseable(api_levels) ==
    \E i \in 1..Len(api_levels) : unparseable(api_levels[i])

\* the bids and asks of a snapshot fetched by a task
SessionSnapshotLevels ==
    {<< <<>>, <<>> >>, << <<GoodLevel>>, <<>> >>,
     << <<GoodLevel>>, <<GoodLevel>> >>, << <<BadLevel>>, <<>> >>}

\* the bids and asks of a stream event received by a task
SessionDiffLevels ==
    {<< <<>>, <<>> >>, << <<GoodLevel>>, <<>> >>, << <<>>, <<GoodLevel>> >>,
     << <<GoodLevel, BadLevel>>, <<>> >>}

NoFullBook == [last_update_id |-> 0, bids |-> <<>>, asks |-> <<>>]

\* reqwest::get(url) ... text() ... read_str: a transport error, a body
\* that does not decode, or a FullBook
HttpResults ==
    {[kind |-> k, book |-> NoFullBook] : k \in {"error", "garbage"}}
    \cup {[kind |-> "book",
           book |-> [last_update_id |-> i, bids |-> p[1], asks |-> p[2]]] :
             i \in Ids, p \in SessionSnapshotLevels}

\* the BookDepthUpdate of a stream frame, with its symbol
SessionUpdatesOf(sym) ==
    {[s |-> sym, U |-> i[1], u |-> i[2], pu |-> i[3],
      b |-> p[1], a |-> p[2]] :
        i \in Ids \X Ids \X Ids, p \in SessionDiffLevels}

SessionUpdates == UNION {SessionUpdatesOf(sym) : sym \in StreamSymbols}

\* what `text.contains` finds in a text frame
Marks == {"id", "depthUpdate", "bookTicker", "aggTrade"}

message_type(marks) ==
    IF "id" \in marks THEN "Other"
    ELSE IF "depthUpdate" \in marks THEN "MD"
    ELSE IF "bookTicker" \in marks THEN "Ticker"
    ELSE IF "aggTrade" \in marks THEN "AggTrade"
    ELSE "Other"

\* the text frames that are no depth update: acks, tickers, trades, others
OtherTexts == {m \in SUBSET Marks : message_type(m) # "MD"}

\* the record of a step: what it was about (op), what came of it (outcome),
\* whether it printed a book; `observed` (a load of the flag has returned
\* false) and `failed` (the stream has ended or reported an error) are
\* kept from step to step
Step(op, outcome, printed, observed) ==
    [op |-> op, outcome |-> outcome, printed |-> printed,
     observed |-> observed,
     failed |-> step.failed \/ op \in {"end", "error"}]

\* the task starts: its books are new (lines 77-80)
InitSession ==
    /\ is_app_running = TRUE
    /\ symbols \in Groups
    /\ order_books = [sym \in Range(symbols) |-> new(levels)]
    /\ pc = "subscribe"
    /\ fetching = 0
    /\ pending = Range(symbols)
    /\ step = NoStep

\* the task ends by a panic: the books are dropped
Panic(op) ==
    /\ pc' = "panicked"
    /\ order_books' = <<>>
    /\ step' = Step(op, "Panic", FALSE, step.observed)
    /\ UNCHANGED <<is_app_running, symbols, fetching, pending>>

\* the flag never seen unset
stop_requested_never == FALSE

\* lines 106 and 135: !is_app_running.load(Ordering::SeqCst)
stop_requested == ~is_app_running

\* lines 82-101: the subscriptions, one send per symbol
Subscribe ==
    /\ pc = "subscribe"
    /\ \E sent \in BOOLEAN :
          IF sent
          THEN /\ pc' = "loop"
               /\ step' = Step("subscribe", "None", FALSE, step.observed)
               /\ UNCHANGED <<is_app_running, symbols, order_books,
                              fetching, pending>>
          ELSE Panic("subscribe")
    /\ UNCHANGED <<bookvars, dispvars>>

\* lines 104-109: the top of the outer loop
CheckRunning ==
    /\ pc = "loop"
    /\ IF stop_requested
       THEN /\ pc' = "closed"
            /\ order_books' = <<>>
            /\ step' = Step("stop", "None", FALSE, TRUE)
            /\ UNCHANGED fetching
       ELSE /\ pc' = "fetch"
            /\ fetching' = 1
            /\ step' = Step("check", "None", FALSE, step.observed)
            /\ UNCHANGED order_books
    /\ UNCHANGED <<is_app_running, symbols, pending>>
    /\ UNCHANGED <<bookvars, dispvars>>

\* the snapshot pass left for the read loop after its first symbol
FetchFullBook_first_only ==
    /\ pc = "fetch"
    /\ \E res \in HttpResults :
          LET symbol == symbols[fetching]
          IN  IF \/ res.kind # "book"
                 \/ has_unparseable(res.book.bids \o res.book.asks)
              THEN Panic("snapshot")
              ELSE /\ order_books' =
                         [order_books EXCEPT ![symbol] =
                             apply_full_book_from_http_api(@, res.book)]
                   /\ pending' = pending \ {symbol}
                   /\ pc' = "read" /\ UNCHANGED fetching
                   /\ step' = Step("snapshot", "None", FALSE, step.observed)
                   /\ UNCHANGED <<is_app_running, symbols>>
    /\ UNCHANGED <<bookvars, dispvars>>

\* lines 112-130: the snapshot of symbols[fetching]
FetchFullBook ==
    /\ pc = "fetch"
    /\ \E res \in HttpResults :
          LET symbol == symbols[fetching]
          IN  IF \/ res.kind # "book"
                 \/ has_unparseable(res.book.bids \o res.book.asks)
              THEN Panic("snapshot")
              ELSE /\ order_books' =
                         [order_books EXCEPT ![symbol] =
                             apply_full_book_from_http_api(@, res.book)]
                   /\ pending' = pending \ {symbol}
                   /\ IF fetching = Len(symbols)
                      THEN pc' = "read" /\ UNCHANGED fetching
                      ELSE pc' = "fetch" /\ fetching' = fetching + 1
                   /\ step' = Step("snapshot", "None", FALSE, step.observed)
                   /\ UNCHANGED <<is_app_running, symbols>>
    /\ UNCHANGED <<bookvars, dispvars>>

\* line 133: read.next() is None, the while loop is left
StreamEnd ==
    /\ pc = "read"
    /\ pc' = "loop"
    /\ step' = Step("end", "None", FALSE, step.observed)
    /\ UNCHANGED <<is_app_running, symbols, order_books, fetching, pending>>
    /\ UNCHANGED <<bookvars, dispvars>>

\* lines 135-138: a frame has come and the flag is found unset
StopWhileReading ==
    /\ pc = "read"
    /\ stop_requested
    /\ pc' = "loop"
    /\ step' = Step("stop", "None", FALSE, TRUE)
    /\ UNCHANGED <<is_app_running, symbols, order_books, fetching, pending>>
    /\ UNCHANGED <<bookvars, dispvars>>

\* lines 176-179: the frame is Err(e)
ReceiveError ==
    /\ pc = "read"
    /\ ~stop_requested
    /\ pc' = "loop"
    /\ step' = Step("error", "None", FALSE, step.observed)
    /\ UNCHANGED <<is_app_running, symbols, order_books, fetching, pending>>
    /\ UNCHANGED <<bookvars, dispvars>>

\* lines 141-145: a Ping is answered by a Pong
ReceivePing ==
    /\ pc = "read"
    /\ ~stop_requested
    /\ \E sent \in BOOLEAN :
          IF sent
          THEN /\ pc' = "read"
               /\ step' = Step("ping", "None", FALSE, step.observed)
               /\ UNCHANGED <<is_app_running, symbols, order_books,
                              fetching, pending>>
          ELSE Panic("ping")
    /\ UNCHANGED <<bookvars, dispvars>>

\* lines 148-151, 167-172: a frame that message_type does not class as MD
\* (text false: to_text fails and message_type panics)
ReceiveOther ==
    /\ pc = "read"
    /\ ~stop_requested
    /\ \E text \in BOOLEAN, marks \in OtherTexts :
          IF text
          THEN /\ pc' = "read"
               /\ step' = Step(message_type(marks), "None", FALSE,
                               step.observed)
               /\ UNCHANGED <<is_app_running, symbols, order_books,
                              fetching, pending>>
          ELSE Panic("binary")
    /\ UNCHANGED <<bookvars, dispvars>>

\* the Ok arm never taken: no book is printed
handle_result_never_prints(ret) ==
    IF ret THEN [pc |-> "read", printed |-> FALSE]
    ELSE [pc |-> "loop", printed |-> FALSE]

\* no break on the Err arm
handle_result_no_break(ret) ==
    [pc |-> "read", printed |-> ret]

\* lines 157-165: println on the Ok arm, break on the Err arm
handle_result(ret) ==
    IF ret THEN [pc |-> "read", printed |-> TRUE]
    ELSE [pc |-> "loop", printed |-> FALSE]

\* lines 152-166: a frame that message_type classes as MD (decodes false:
\* read_message panics)
ReceiveDepthUpdate ==
    /\ pc = "read"
    /\ ~stop_requested
    /\ \/ Panic("undecodable")
       \/ \E sym \in StreamSymbols :
             LET key == to_lowercase(sym)
             IN  IF key \notin DOMAIN order_books
                 THEN Panic("unroutable")
                 ELSE \E book_update \in SessionUpdatesOf(sym) :
                      LET r == apply_depth_book_update_from_websocket(
                                   order_books[key], book_update)
                          h == handle_result(r.ret)
                      IN  IF /\ r.line = 126
                             /\ has_unparseable(book_update.b \o book_update.a)
                          THEN Panic("malformed")
                          ELSE /\ order_books' =
                                     [order_books EXCEPT ![key] = r.self]
                               /\ pc' = h.pc
                               /\ pending' = IF r.ret THEN pending
                                             ELSE Range(symbols)
                               /\ step' = Step("diff", r.outcome, h.printed,
                                               step.observed)
                               /\ UNCHANGED <<is_app_running, symbols,
                                              fetching>>
    /\ UNCHANGED <<bookvars, dispvars>>

\* lines 219-224: the ctrl-c handler
CtrlC ==
    /\ is_app_running
    /\ is_app_running' = FALSE
    /\ step' = Step("ctrlc", "None", FALSE, step.observed)
    /\ UNCHANGED <<symbols, order_books, pc, fetching, pending>>
    /\ UNCHANGED <<bookvars, dispvars>>

SessionStep ==
    \/ Subscribe
    \/ CheckRunning
    \/ FetchFullBook
    \/ StreamEnd
    \/ StopWhileReading
    \/ ReceiveError
    \/ ReceivePing
    \/ ReceiveOther
    \/ ReceiveDepthUpdate

NextSession == SessionStep \/ CtrlC

\* a task alone; its books have the greatest depth (their sides never hold
\* more than the two levels an event carries)
SessionInit == InitBook /\ levels = MaxDepth /\ InitSession /\ NoDispatch

SpecSession == SessionInit /\ [][NextSession]_vars

\* the task is scheduled and each of its network calls completes
FairSpecSession == SpecSession /\ WF_vars(SessionStep)

(***************************************************************************)
(* main (src/src/main.rs:23-66): the instruments are cut into chunks, one  *)
(* connection and one handle_updates task per chunk, then all the tasks    *)
(* are joined.  An instrument is named by its position in the list.  A     *)
(* task is seen from outside: running, closed (it has returned) or         *)
(* panicked.  When main panics the process exits: the tasks still running  *)
(* are dropped with the runtime.                                           *)
(***************************************************************************)
\* the quotient rounded half up instead of up
instruments_per_connection_rounded(n, c) ==
    IF (2 * n + c) \div (2 * c) = 0 THEN 1 ELSE (2 * n + c) \div (2 * c)

\* (len as f32 / connections as f32).ceil() as usize; exact for the
\* lengths of the model (an f32 holds every integer below 2^24)
instruments_per_connection(n, c) == (n + c - 1) \div c

\* slice::chunks(chunk_size): the number of chunks and the k-th chunk
chunks_count(v, chunk_size) == (Len(v) + chunk_size - 1) \div chunk_size

chunks_nth(v, chunk_size, k) ==
    SubSeq(v, (k - 1) * chunk_size + 1,
           IF k * chunk_size < Len(v) THEN k * chunk_size ELSE Len(v))

chunk_size_of_config ==
    instruments_per_connection(Len(instruments), connections)

InitDispatch ==
    /\ \E n \in 1..MaxInstruments : instruments = [i \in 1..n |-> i]
    /\ connections \in 1..MaxConnections
    /\ handlers = <<>>
    /\ chunk_no = 1
    /\ main_pc = "spawning"

\* lines 39-57: connect_to_binance for the chunk, then tokio::spawn; a
\* failed connect panics (line 198)
ConnectAndSpawn ==
    /\ main_pc = "spawning"
    /\ \E connected \in BOOLEAN :
          IF connected
          THEN /\ handlers' =
                     Append(handlers,
                            [symbols |-> chunks_nth(instruments,
                                                    chunk_size_of_config,
                                                    chunk_no),
                             status  |-> "running"])
               /\ chunk_no' = chunk_no + 1
               /\ main_pc' =
                     IF chunk_no = chunks_count(instruments,
                                                chunk_size_of_config)
                     THEN "joining" ELSE "spawning"
          ELSE /\ main_pc' = "panicked"
               /\ UNCHANGED <<handlers, chunk_no>>
    /\ UNCHANGED <<instruments, connections>>
    /\ UNCHANGED <<bookvars, sessvars>>

\* a handle_updates task returns or panics
TaskEnds ==
    /\ main_pc \in {"spawning", "joining"}
    /\ \E i \in 1..Len(handlers), how \in {"closed", "panicked"} :
          /\ handlers[i].status = "running"
          /\ handlers' = [handlers EXCEPT ![i].status = how]
    /\ UNCHANGED <<instruments, connections, chunk_no, main_pc>>
    /\ UNCHANGED <<bookvars, sessvars>>

\* lines 61-63: try_join_all yields the first JoinError as soon as a task
\* has panicked, and expect panics
JoinFails ==
    /\ main_pc = "joining"
    /\ \E i \in 1..Len(handlers) : handlers[i].status = "panicked"
    /\ main_pc' = "panicked"
    /\ UNCHANGED <<instruments, connections, handlers, chunk_no>>
    /\ UNCHANGED <<bookvars, sessvars>>

\* lines 61-65: every task has returned
JoinCompletes ==
    /\ main_pc = "joining"
    /\ \A i \in 1..Len(handlers) : handlers[i].status = "closed"
    /\ main_pc' = "finished"
    /\ UNCHANGED <<instruments, connections, handlers, chunk_no>>
    /\ UNCHANGED <<bookvars, sessvars>>

NextDispatch == ConnectAndSpawn \/ TaskEnds \/ JoinFails \/ JoinCompletes

\* main alone, its tasks seen from outside
DispatchInit == InitBook /\ NoSession /\ InitDispatch

SpecDispatch == DispatchInit /\ [][NextDispatch]_vars

(***************************************************************************)
(* Vocabulary of the properties.                                           *)
(***************************************************************************)
\* the result of the diff call with event ev on the book as it is now
Diff(ev) == apply_depth_book_update_from_websocket(Self, ev)

\* the bid side, the ask side and the cursor of book b are those of book c
SameSidesAndCursor(b, c) ==
    /\ b.bid = c.bid
    /\ b.ask = c.ask
    /\ b.last_update_id = c.last_update_id

\* the event passes the checks of lines 104 and 108 against the cursor
PassesRange(ev) ==
    /\ ev.U <= last_update_id
    /\ last_update_id <= ev.u

\* applying the levels of the event would change a side
WouldChangeSides(ev) ==
    \/ apply_all(bid, ev.b, FALSE) # bid
    \/ apply_all(ask, ev.a, TRUE) # ask

HasPrice(lvls, p) == \E i \in 1..Len(lvls) : lvls[i].price = p

NoZeroQuantity(lvls) == \A i \in 1..Len(lvls) : lvls[i].quantity # 0

StrictlyDescending(lvls) ==
    \A i \in 1..Len(lvls) : \A j \in 1..Len(lvls) :
        i < j => lvls[i].price > lvls[j].price

StrictlyAscending(lvls) ==
    \A i \in 1..Len(lvls) : \A j \in 1..Len(lvls) :
        i < j => lvls[i].price < lvls[j].price

\* the side an upsert acted on
IsUpsert(call) == call.op \in {"apply_bid", "apply_ask"}
SideOf(call, b, a) == IF call.op = "apply_bid" THEN b ELSE a

(***************************************************************************)
(* C1.  Stale rejection as claimed: in every state of the book, the diff   *)
(* call with an event whose final_update_id is at most the cursor (equal   *)
(* included) returns true and leaves the bid side, the ask side and the    *)
(* cursor as they were.                                                    *)
(* The code applies an event with final_update_id = cursor.                *)
(***************************************************************************)
C1_StaleUpToCursor ==
    \A ev \in BookDepthUpdates :
        ev.u <= last_update_id
            => LET r == Diff(ev)
               IN  r.ret /\ SameSidesAndCursor(r.self, Self)

\* C1 as amended: in every state of the book, the diff call with an event
\* whose final_update_id is strictly below the cursor is Stale (true
\* returned at line 105) and leaves every field of the book as it was.
C1_StaleBelowCursor ==
    \A ev \in BookDepthUpdates :
        ev.u < last_update_id
            => LET r == Diff(ev)
               IN  /\ r.outcome = "Stale"
                   /\ r.ret
                   /\ r.self = Self

\* a Stale call was made on a book with both sides filled, where an event
\* below the cursor carries levels that would change a side
C1_Witness ==
    /\ last.op = "diff"
    /\ last.outcome = "Stale"
    /\ bid # <<>>
    /\ ask # <<>>
    /\ \E ev \in BookDepthUpdates :
          /\ ev.u < last_update_id
          /\ ev.U <= ev.u
          /\ WouldChangeSides(ev)
          /\ Diff(ev).outcome = "Stale"

(***************************************************************************)
(* C2.  Gap detection as claimed: in every state of the book, the diff     *)
(* call with an event whose first_update_id is above the cursor returns    *)
(* false (Gap), whatever its final_update_id and prev_final_update_id and  *)
(* whether or not the book was just initialised.                           *)
(* An event with final_update_id < cursor < first_update_id is Stale.      *)
(***************************************************************************)
C2_GapAboveCursor ==
    \A ev \in BookDepthUpdates :
        ev.U > last_update_id => ~Diff(ev).ret

\* C2 as amended: in every state of the book, the diff call with an event
\* whose first_update_id is above the cursor and whose final_update_id is
\* not below it (every event with U <= u is one) returns false (Gap),
\* whatever its prev_final_update_id and whether or not the book was just
\* initialised; the book is unchanged.
C2_GapAboveCursorNotStale ==
    \A ev \in BookDepthUpdates :
        (ev.U > last_update_id /\ ev.u >= last_update_id)
            => LET r == Diff(ev)
               IN  /\ r.outcome = "Gap"
                   /\ ~r.ret
                   /\ r.self = Self

\* a Gap was reported on a just-initialised book, where an event above the
\* cursor chains from it (pu = cursor) and is a Gap all the same
C2_Witness ==
    /\ last.op = "diff"
    /\ last.outcome = "Gap"
    /\ is_just_initialised
    /\ last_update_id > 0
    /\ \E ev \in BookDepthUpdates :
          /\ ev.U > last_update_id
          /\ ev.pu = last_update_id
          /\ Diff(ev).outcome = "Gap"

(***************************************************************************)
(* C3.  Bootstrap relaxation: right after a snapshot with id S, the diff   *)
(* call with an event with first_update_id <= S <= final_update_id is      *)
(* Applied whatever its prev_final_update_id, and leaves the cursor at the *)
(* event's final_update_id (final_update_id = S included).                 *)
(***************************************************************************)
C3_BootstrapRelaxation ==
    last.op = "snapshot"
        => \A ev \in BookDepthUpdates :
              PassesRange(ev)
                  => LET r == Diff(ev)
                     IN  /\ r.outcome = "Applied"
                         /\ r.ret
                         /\ r.self.last_update_id = ev.u

\* right after a snapshot with id S > 0, an event with U < S = u and
\* pu # S that carries levels is Applied
C3_Witness ==
    /\ last.op = "snapshot"
    /\ \E ev \in BookDepthUpdates :
          /\ ev.U < last_update_id
          /\ ev.u = last_update_id
          /\ ev.pu # last_update_id
          /\ WouldChangeSides(ev)
          /\ Diff(ev).outcome = "Applied"
          /\ Diff(ev).self.bid # bid

(***************************************************************************)
(* C4.  The relaxation lasts for one diff: once a diff has been Applied    *)
(* since the latest snapshot (which is to clear the flag), the diff call   *)
(* with an event that passes the range check (first_update_id <= cursor,   *)
(* and the cursor below final_update_id, so that it is no duplicate        *)
(* either) and whose prev_final_update_id differs from the cursor returns  *)
(* false (Gap) and changes nothing.                                        *)
(* The code never clears is_just_initialised, and applies the event.       *)
(***************************************************************************)
C4_RelaxationLastsOneDiff ==
    last.first_done
        => \A ev \in BookDepthUpdates :
              (/\ PassesRange(ev)
               /\ last_update_id < ev.u
               /\ ev.pu # last_update_id)
                  => LET r == Diff(ev)
                     IN  ~r.ret /\ r.self = Self

(***************************************************************************)
(* C5.  Atomic application: in every state of the book, a diff call that   *)
(* returns false (Gap, by the range check or by the continuity check), or  *)
(* that is not Applied, leaves every field of the book as it was.          *)
(***************************************************************************)
C5_AtomicApplication ==
    \A ev \in BookDepthUpdates :
        LET r == Diff(ev)
        IN  (~r.ret \/ r.outcome # "Applied") => r.self = Self

\* a Gap was reported on a book with a filled bid side, where an event that
\* fails the continuity check (line 113) carries levels that would change
\* a side
C5_Witness ==
    /\ last.op = "diff"
    /\ last.outcome = "Gap"
    /\ bid # <<>>
    /\ \E ev \in BookDepthUpdates :
          /\ Diff(ev).line = 113
          /\ WouldChangeSides(ev)

(***************************************************************************)
(* C6.  Cursor monotonicity: in every state of the book, no diff call      *)
(* lowers last_update_id; a call that returns true (not Gap) leaves it or  *)
(* moves it to the event's final_update_id.                                *)
(***************************************************************************)
C6_CursorMonotone ==
    \A ev \in BookDepthUpdates :
        LET r == Diff(ev)
        IN  /\ r.self.last_update_id >= last_update_id
            /\ r.ret => r.self.last_update_id \in {last_update_id, ev.u}

\* a diff was Applied and moved the cursor, and an event starting below
\* the cursor would move it further
C6_Witness ==
    /\ last.op = "diff"
    /\ last.outcome = "Applied"
    /\ last_update_id > 0
    /\ \E ev \in BookDepthUpdates :
          /\ ev.U < last_update_id
          /\ Diff(ev).outcome = "Applied"
          /\ Diff(ev).self.last_update_id > last_update_id

(***************************************************************************)
(* C7.  Depth bound: after a snapshot and after an Applied diff, each side *)
(* holds at most `levels` levels, however many were supplied; and so does  *)
(* each side of the book a further snapshot or diff leaves.                *)
(***************************************************************************)
C7_DepthBound ==
    /\ (last.op = "snapshot" \/ (last.op = "diff" /\ last.outcome = "Applied"))
          => (Len(bid) <= levels /\ Len(ask) <= levels)
    /\ \A book \in FullBooks :
          LET b == apply_full_book_from_http_api(Self, book)
          IN  Len(b.bid) <= levels /\ Len(b.ask) <= levels
    /\ \A ev \in BookDepthUpdates :
          LET r == Diff(ev)
          IN  Len(r.self.bid) <= levels /\ Len(r.self.ask) <= levels

\* a diff was Applied on a book whose bid side is full, where a snapshot
\* supplies more bids than the depth and an Applied event grows the bid
\* side beyond the depth before the trim
C7_Witness ==
    /\ last.op = "diff"
    /\ last.outcome = "Applied"
    /\ Len(bid) = levels
    /\ \E book \in FullBooks : Len(book.bids) > levels
    /\ \E ev \in BookDepthUpdates :
          /\ Diff(ev).outcome = "Applied"
          /\ Len(apply_all(bid, ev.b, FALSE)) > levels

(***************************************************************************)
(* C8.  Sortedness: from empty sides, after any sequence of upserts the    *)
(* bid side is strictly descending by price and the ask side strictly      *)
(* ascending, so no two levels of a side share a price.                    *)
(***************************************************************************)
C8_Sortedness ==
    StrictlyDescending(bid) /\ StrictlyAscending(ask)

\* an upsert has replaced a level in place on sides of three levels each
C8_Witness ==
    /\ IsUpsert(last)
    /\ last.found
    /\ Len(bid) = 3
    /\ Len(ask) = 3

(***************************************************************************)
(* C9.  Tombstone removal as claimed: an upsert of (p, quantity 0) on a    *)
(* side that holds a level at p removes it, and no side ever stores a      *)
(* level of quantity zero.                                                 *)
(* The code tests the price, not the quantity, against zero.               *)
(***************************************************************************)
C9_TombstoneRemoves ==
    [][(IsUpsert(last') /\ level_api_to_level(last'.lvl).quantity = 0
                        /\ HasPrice(SideOf(last', bid, ask),
                                    level_api_to_level(last'.lvl).price))
          => /\ ~HasPrice(SideOf(last', bid', ask'),
                          level_api_to_level(last'.lvl).price)
             /\ NoZeroQuantity(bid')
             /\ NoZeroQuantity(ask')]_vars

(***************************************************************************)
(* C10.  Tombstone idempotence as claimed: an upsert of (p, quantity 0) on *)
(* a side with no level at p leaves the side unchanged, and the same       *)
(* tombstone a second time leaves the side as the first left it.           *)
(* The code inserts the level (p, 0).                                      *)
(***************************************************************************)
C10_TombstoneIdempotent ==
    [][(IsUpsert(last') /\ level_api_to_level(last'.lvl).quantity = 0)
          => /\ ~HasPrice(SideOf(last', bid, ask),
                          level_api_to_level(last'.lvl).price)
                   => SideOf(last', bid', ask') = SideOf(last', bid, ask)
             /\ (last.op = last'.op /\ last.lvl = last'.lvl)
                   => SideOf(last', bid', ask') = SideOf(last', bid, ask)]_vars

(***************************************************************************)
(* C11.  Snapshot replacement: in every state of the book, the snapshot    *)
(* call leaves on each side the first `levels` entries of the list         *)
(* supplied for that side, converted entry by entry and in the order       *)
(* supplied (none for an empty list, nothing of the previous side), the    *)
(* cursor at the snapshot's last_update_id and is_just_initialised true.   *)
(***************************************************************************)
Min(a, b) == IF a < b THEN a ELSE b

\* side is the first n entries of the list, each converted from its texts
IsPrefixOfSupplied(side, api_levels, n) ==
    /\ Len(side) = Min(Len(api_levels), n)
    /\ \A i \in 1..Len(side) :
          /\ side[i].price = parse_f64(api_levels[i].price).val
          /\ side[i].quantity = parse_f64(api_levels[i].quantity).val

C11_SnapshotReplaces ==
    /\ last.op = "snapshot" => is_just_initialised
    /\ \A book \in FullBooks :
          LET b == apply_full_book_from_http_api(Self, book)
          IN  /\ IsPrefixOfSupplied(b.bid, book.bids, levels)
              /\ IsPrefixOfSupplied(b.ask, book.asks, levels)
              /\ b.last_update_id = book.last_update_id
              /\ b.is_just_initialised
              /\ b.levels = levels

\* a snapshot has been applied on a book with a full bid side and a filled
\* ask side, where a further snapshot with a lower id and no bids empties
\* the bid side and one with other levels replaces both sides
C11_Witness ==
    /\ last.op = "snapshot"
    /\ Len(bid) = levels
    /\ ask # <<>>
    /\ \E book \in FullBooks :
          /\ book.bids = <<>>
          /\ book.last_update_id < last_update_id
          /\ apply_full_book_from_http_api(Self, book).bid = <<>>
    /\ \E book \in FullBooks :
          /\ book.bids # <<>>
          /\ book.asks # <<>>
          /\ apply_full_book_from_http_api(Self, book).bid[1] # bid[1]
          /\ apply_full_book_from_http_api(Self, book).ask[1] # ask[1]

(***************************************************************************)
(* C20.  Mid and spread: in every state of the book, get_mid and           *)
(* get_spread are Some exactly when both sides hold a level; then the      *)
(* spread is the price at index 0 of the ask side less the price at index  *)
(* 0 of the bid side, and the mid is half their sum (twice the mid, the    *)
(* sum).                                                                   *)
(***************************************************************************)
C20_MidAndSpread ==
    LET present == bid # <<>> /\ ask # <<>>
    IN  /\ get_mid(Self).some <=> present
        /\ get_spread(Self).some <=> present
        /\ get_best_bid(Self).ok <=> bid # <<>>
        /\ get_best_ask(Self).ok <=> ask # <<>>
        /\ present =>
              /\ get_best_bid(Self).level = bid[1]
              /\ get_best_ask(Self).level = ask[1]
              /\ get_spread(Self).val = ask[1].price - bid[1].price
              /\ get_mid(Self).twentieths = ask[1].price + bid[1].price

\* a book with two bids and an ask whose best prices differ
C20_Witness ==
    /\ last.op = "diff"
    /\ last.outcome = "Applied"
    /\ Len(bid) = 2
    /\ ask # <<>>
    /\ ask[1].price # bid[1].price
    /\ get_mid(Self).some

(***************************************************************************)
(* C12.  Group resync on Gap: a step of the task in which the diff call    *)
(* returns false (Gap) for one symbol leaves the read loop for the top of  *)
(* the outer loop, and from then on no event is passed to the diff call    *)
(* of any book of the group until a snapshot has been applied to the book  *)
(* of every symbol of the group (`pending` empty again); till then the     *)
(* books change by snapshots only.                                         *)
(***************************************************************************)
C12_GroupResync ==
    [][/\ (step'.op = "diff" /\ step'.outcome = "Gap")
             => /\ pc' = "loop"
                /\ pending' = Range(symbols)
                /\ order_books' = order_books
       /\ step'.op \in {"diff", "malformed"} => pending = {}
       /\ (pending # {} /\ order_books' # order_books)
             => step'.op \in {"snapshot", "stop"} \/ step'.outcome = "Panic"
      ]_vars

\* a Gap has been reported for one symbol of a group of two whose other
\* book holds levels: both books await a snapshot
C12_Witness ==
    /\ step.op = "diff"
    /\ step.outcome = "Gap"
    /\ pc = "loop"
    /\ Len(symbols) = 2
    /\ pending = {"btc", "eth"}
    /\ \E sym \in DOMAIN order_books : order_books[sym].bid # <<>>

(***************************************************************************)
(* C13.  Publication as claimed: the step of a diff prints the book        *)
(* exactly when the diff was Applied; a Stale diff prints nothing and      *)
(* leaves the task in the read loop; a Gap prints nothing.                 *)
(* The code prints the book after a Stale diff: the call returns true for  *)
(* Stale as for Applied.                                                   *)
(***************************************************************************)
C13_PublishedIffApplied ==
    step.op = "diff"
        => /\ step.printed <=> step.outcome = "Applied"
           /\ step.outcome = "Stale" => pc = "read"

\* C13 as amended: the step of a diff prints the book exactly when the diff
\* call returned true, that is when the diff was Applied or Stale, and then
\* the task stays in the read loop; a Gap prints nothing.
C13_PublishedIffReturnedTrue ==
    step.op = "diff"
        => /\ step.printed <=> step.outcome \in {"Applied", "Stale"}
           /\ step.printed => pc = "read"
           /\ step.outcome = "Gap" => ~step.printed /\ pc = "loop"

\* a Stale diff has been handled: the book was printed, the task reads on
C13_Witness ==
    /\ step.op = "diff"
    /\ step.outcome = "Stale"
    /\ step.printed
    /\ pc = "read"

(***************************************************************************)
(* C14.  Transport failure as claimed: once the stream has ended or has    *)
(* reported a receive error, the task fetches no snapshot and handles no   *)
(* event any more: it is never again at the snapshot pass or in the read   *)
(* loop.                                                                   *)
(* The code goes back to the top of the outer loop and fetches the         *)
(* snapshots again.                                                        *)
(***************************************************************************)
C14_TransportFailureIsFatal ==
    step.failed
        => /\ pc \notin {"fetch", "read"}
           /\ step.op \notin {"snapshot", "diff"}

(***************************************************************************)
(* C16.  Unroutable frames as claimed: a step that receives a depth update *)
(* for a symbol the task has no book for, or a text frame of another       *)
(* topic, changes no book and leaves the task in the read loop.            *)
(* The code unwraps the missing book and panics.                           *)
(***************************************************************************)
C16_UnroutableDiscarded ==
    [][step'.op \in {"unroutable", "Other", "Ticker", "AggTrade"}
          => /\ pc' = "read"
             /\ order_books' = order_books]_vars

(***************************************************************************)
(* C15.  Cooperative cancellation: once a load of the flag has returned    *)
(* false the task starts no snapshot pass and handles no event (it is at   *)
(* the top of the loop or has returned); and, the task being scheduled     *)
(* and its network calls completing, once the flag is unset the task       *)
(* ends (it returns, or it has panicked in a call that was in flight).     *)
(***************************************************************************)
C15_Cancellation ==
    /\ [](step.observed => (step.op = "stop" /\ pc \in {"loop", "closed"}))
    /\ (~is_app_running ~> pc \in {"closed", "panicked"})

\* a load of the flag has returned false in a task for a group of two, and
\* the task has returned
C15_Witness ==
    /\ step.observed
    /\ ~is_app_running
    /\ pc = "closed"
    /\ Len(symbols) = 2

(***************************************************************************)
(* C17.  MalformedLevel as claimed: a step that receives an event which    *)
(* passes the three guards and holds a level whose text does not parse     *)
(* applies the other levels of the event, moves the cursor to the event's  *)
(* final_update_id and leaves the task in the read loop.                   *)
(* The code unwraps the failed parse and panics.                           *)
(***************************************************************************)
skip_unparseable(api_levels) ==
    SelectSeq(api_levels, LAMBDA l : ~unparseable(l))

C17_MalformedLevelSkipped ==
    [][step'.op = "malformed"
          => /\ pc' = "read"
             /\ \E ev \in SessionUpdates :
                   LET key == to_lowercase(ev.s)
                   IN  /\ key \in DOMAIN order_books
                       /\ has_unparseable(ev.b \o ev.a)
                       /\ apply_depth_book_update_from_websocket(
                              order_books[key], ev).line = 126
                       /\ order_books' =
                             [order_books EXCEPT ![key] =
                                 update(@, [ev EXCEPT
                                               !.b = skip_unparseable(@),
                                               !.a = skip_unparseable(@)])]
      ]_vars

(***************************************************************************)
(* C18.  Partitioning: the chunk size is ceil(n/c); the tasks spawned so   *)
(* far hold the first chunks of the list, in order, each contiguous,       *)
(* non-empty and of the chunk size (the last one of the list may be        *)
(* smaller); when every chunk has its task, there are at most c tasks and  *)
(* every position of the list is in the chunk of exactly one task.         *)
(***************************************************************************)
C18_Partitioning ==
    LET n    == Len(instruments)
        size == chunk_size_of_config
    IN  /\ size * connections >= n
        /\ (size - 1) * connections < n
        /\ Len(handlers) <= connections
        /\ \A k \in 1..Len(handlers) :
              LET chunk == handlers[k].symbols
              IN  /\ chunk # <<>>
                  /\ Len(chunk) <= size
                  /\ k < Len(handlers) => Len(chunk) = size
                  /\ \A j \in 1..Len(chunk) :
                        chunk[j] = instruments[(k - 1) * size + j]
        /\ main_pc \in {"joining", "finished"}
              => \A p \in 1..n :
                    Cardinality({k \in 1..Len(handlers) :
                                    p \in Range(handlers[k].symbols)}) = 1

\* every task is spawned for a list that does not divide evenly and with
\* more connections allowed than chunks made
C18_Witness ==
    /\ main_pc = "joining"
    /\ Len(instruments) = 4
    /\ connections = 3
    /\ Len(handlers) = 2

(***************************************************************************)
(* C19.  No leaked task as claimed: when main reports a failure (panics),  *)
(* every task it has spawned has ended.                                    *)
(* The code panics on a failed connect, and on the first task that has     *)
(* panicked, while other tasks are running.                                *)
(***************************************************************************)
C19_NoLeakedSession ==
    main_pc = "panicked"
        => \A i \in 1..Len(handlers) : handlers[i].status # "running"

(***************************************************************************)
(* C21.  Level-set invariant as claimed: in every state of a book that     *)
(* snapshots and diffs with any level lists have acted on, the bid side    *)
(* is strictly descending and the ask side strictly ascending by price     *)
(* (so no price twice), and the level at index 0 holds the highest bid     *)
(* and the lowest ask of its side.                                         *)
(* The code pushes the levels of a snapshot in the order supplied, neither *)
(* sorted nor checked for duplicates.                                      *)
(***************************************************************************)
C21_LevelSetInvariant ==
    /\ StrictlyDescending(bid)
    /\ StrictlyAscending(ask)
    /\ \A i \in 1..Len(bid) : bid[1].price >= bid[i].price
    /\ \A i \in 1..Len(ask) : ask[1].price <= ask[i].price

(***************************************************************************)
(* C22.  Cursor monotonicity over the whole life as claimed: no call on    *)
(* the book, snapshot or diff, lowers last_update_id.                      *)
(* A snapshot sets the cursor to its own id, lower or not.                 *)
(***************************************************************************)
C22_CursorNeverDecreases ==
    [][last_update_id' >= last_update_id]_vars

\* C22 as amended: a diff call never lowers last_update_id; a snapshot sets
\* it to the snapshot's last_update_id whatever the cursor was, so that the
\* cursor is lowered by snapshots only.
C22_CursorLoweredBySnapshotOnly ==
    [][/\ last_update_id' < last_update_id => last'.op = "snapshot"
       /\ last'.op = "diff" => last_update_id' >= last_update_id
       /\ last'.op = "snapshot"
             => \E book \in FullBooks :
                   /\ last_update_id' = book.last_update_id
                   /\ bid' = apply_full_book_from_http_api(Self, book).bid
                   /\ ask' = apply_full_book_from_http_api(Self, book).ask
      ]_vars

\* diffs have moved the cursor of a snapshotted book to the highest id, and
\* a snapshot with a lower id would move it back
C22_Witness ==
    /\ last.op = "diff"
    /\ last.outcome = "Applied"
    /\ last.first_done
    /\ last_update_id = MaxId
    /\ \E book \in FullBooks :
          apply_full_book_from_http_api(Self, book).last_update_id
              < last_update_id

(***************************************************************************)
(* C23.  Gap only when events were missed, as claimed: once a snapshot has *)
(* been applied and then a diff has been Applied, the next event of a      *)
(* stream in                                                               *)
(* order (its prev_final_update_id is the cursor, the final_update_id of   *)
(* the event before it; its first_update_id is above the cursor and not    *)
(* above its final_update_id) is Applied: the call returns true and moves  *)
(* the cursor to the event's final_update_id.                              *)
(* The code requires first_update_id <= cursor of every event, and reports *)
(* Gap.                                                                    *)
(***************************************************************************)
C23_NoGapInOrder ==
    (is_just_initialised /\ last.op = "diff" /\ last.outcome = "Applied")
        => \A ev \in BookDepthUpdates :
              (/\ ev.pu = last_update_id
               /\ ev.U > last_update_id
               /\ ev.U <= ev.u)
                  => LET r == Diff(ev)
                     IN  /\ r.outcome = "Applied"
                         /\ r.ret
                         /\ r.self.last_update_id = ev.u

(***************************************************************************)
(* C24.  Snapshot before stream: the task passes an event to the diff call *)
(* only in the read loop, which it enters only by the snapshot of the last *)
(* symbol of a pass that began at the first symbol and took the symbols    *)
(* one by one, so that every book of the group has had its snapshot in     *)
(* that pass; a step handles one event, on one book; and a snapshot is     *)
(* applied only in the pass, to the book of the symbol the pass is at.     *)
(***************************************************************************)
\* the books are those of before, but for the book of `sym`
OnlyBookChanged(sym) ==
    /\ DOMAIN order_books' = DOMAIN order_books
    /\ \A other \in DOMAIN order_books :
          other # sym => order_books'[other] = order_books[other]

C24_SnapshotBeforeStream ==
    [][/\ step'.op \in {"diff", "malformed"}
             => /\ pc = "read"
                /\ fetching = Len(symbols)
                /\ pending = {}
                /\ \A sym \in DOMAIN order_books :
                      order_books[sym].is_just_initialised
       /\ step'.op = "diff"
             => \E sym \in DOMAIN order_books : OnlyBookChanged(sym)
       /\ (step'.op = "snapshot" /\ step'.outcome # "Panic")
             => /\ pc = "fetch"
                /\ OnlyBookChanged(symbols[fetching])
                /\ order_books'[symbols[fetching]].is_just_initialised
                /\ IF fetching = Len(symbols)
                   THEN pc' = "read"
                   ELSE pc' = "fetch" /\ fetching' = fetching + 1
       /\ (pc # "fetch" /\ pc' = "fetch") => fetching' = 1
       /\ (pc # "read" /\ pc' = "read")
             => step'.op = "snapshot" /\ fetching = Len(symbols)
       /\ (pc = "fetch" /\ order_books' # order_books)
             => step'.op = "snapshot" \/ step'.outcome = "Panic"
      ]_vars

\* in a group of two, after the stream had ended once and the snapshots
\* were fetched again, an event has been Applied to a book
C24_Witness ==
    /\ step.op = "diff"
    /\ step.outcome = "Applied"
    /\ step.failed
    /\ pc = "read"
    /\ Len(symbols) = 2
    /\ \A sym \in DOMAIN order_books : order_books[sym].is_just_initialised
    /\ \E sym \in DOMAIN order_books : order_books[sym].bid # <<>>

====
